---------------------------- MODULE Spec2Model ----------------------------
(***************************************************************************)
(* Cellular automaton (Conway's Life) engine and its curses driver, as     *)
(* implemented in src/automata.py: class Life (grid, rule, history based   *)
(* halt detection, seeding) and the function draw (render / advance /      *)
(* sleep loop with its halt policy).                                       *)
(***************************************************************************)
EXTENDS Integers, Sequences, FiniteSets, TLC

(***************************************************************************)
(* Bounds of the model.                                                    *)
(***************************************************************************)
\* a randomly seeded universe has at most MaxArea cells (width * height)
MaxArea == 9
\* advance() is not called any more once generations has reached MaxGen
MaxGen == 10
\* a pattern file is tried on universes of 4 up to MaxPatternSide cells a side
MaxPatternSide == 5
\* the driver runs universes of at most MaxDrawArea cells
MaxDrawArea == 6
\* the period 8 oscillator is run in universes of 10 up to MaxOscillatorSide cells a side
MaxOscillatorSide == 10
\* a text file has at most MaxLines lines of at most MaxCols characters, and is
\* read into universes of at most MaxFileSide cells a side
MaxLines == 2
MaxCols == 2
MaxFileSide == 3
\* the changes of a tick are applied in every order on universes of at most
\* MaxOrderArea cells
MaxOrderArea == 9
\* the driver is run under fairness on universes of at most MaxHaltArea cells
MaxHaltArea == 4
\* two runs are compared on universes of at most MaxTwinArea cells
MaxTwinArea == 4

\* collections.deque(maxlen=8)
HistoryMaxLen == 8

(***************************************************************************)
(* Glyphs.  The engine stores the configured characters in the grid.       *)
(***************************************************************************)
LiveGlyph == "."
DeadGlyph == " "
Newline == "\n"
None == "None"
SeedPath == "seed.txt"

VARIABLES
    args,       \* the parsed command line (argparse.Namespace)
    disk,       \* the text of the file args.in_file names, line by line
    ca,         \* the Life object the driver holds
    pc,         \* position of the program
    exc,        \* exception raised by the last method call, NoExc if none
    changes,    \* local variable changes of the last advance() call
    past,       \* one entry for each advance() call made on ca, oldest first: the
                \* universe the call started from and whether it raised
    screen,     \* what stdscr shows after its last refresh
    twin        \* where two runs of the driver are compared, the run that is not
                \* stepping and which of the two it is; NoTwin elsewhere

vars == <<args, disk, ca, pc, exc, changes, past, screen, twin>>

NoExc == [type |-> "none", payload |-> 0]
NoFrame == << >>
NoStatus == [shown |-> FALSE, generations |-> 0, prompt |-> FALSE]
Blank == [rows |-> NoFrame, status |-> NoStatus]
NoTwin == [turn |-> 0]

(***************************************************************************)
(* class Life                                                              *)
(***************************************************************************)
Life(width, height, live, dead) ==
    [width |-> width, height |-> height, live |-> live, dead |-> dead,
     universe |-> [y \in 0..(height - 1) |-> [x \in 0..(width - 1) |-> dead]],
     history |-> <<>>,
     generations |-> 0]

in_bounds(self, x, y) ==
    0 <= x /\ x < self.width /\ 0 <= y /\ y < self.height

coords(x, y) ==
    << <<x, y + 1>>, <<x + 1, y + 1>>, <<x + 1, y>>, <<x + 1, y - 1>>,
       <<x, y - 1>>, <<x - 1, y - 1>>, <<x - 1, y>>, <<x - 1, y + 1>> >>

\* one term of the sum in neighbors: the coordinate passes the filter and is live
live_at(self, c) ==
    IF in_bounds(self, c[1], c[2]) /\ self.universe[c[2]][c[1]] = self.live THEN 1 ELSE 0

\* neighbors with the universe wrapped around at its edges
neighbors_wrapped(self, x, y) ==
    LET c == coords(x, y)
    IN Cardinality({k \in 1..8 :
           self.universe[c[k][2] % self.height][c[k][1] % self.width] = self.live})

neighbors(self, x, y) ==
    LET c == coords(x, y)
    IN live_at(self, c[1]) + live_at(self, c[2]) + live_at(self, c[3]) + live_at(self, c[4])
       + live_at(self, c[5]) + live_at(self, c[6]) + live_at(self, c[7]) + live_at(self, c[8])

\* cell_change with a live cell dying of 3 neighbours too
cell_change_crowded(self, x, y) ==
    LET col == self.universe[y][x]
        n == neighbors(self, x, y)
    IN IF col = self.live /\ (n < 2 \/ n >= 3) THEN <<x, y, self.dead>>
       ELSE IF col = self.dead /\ n = 3 THEN <<x, y, self.live>>
       ELSE << >>

\* the tuple get_changes appends for cell (x, y), << >> when it appends none
cell_change(self, x, y) ==
    LET col == self.universe[y][x]
        n == neighbors(self, x, y)
    IN IF col = self.live /\ (n < 2 \/ n > 3) THEN <<x, y, self.dead>>
       ELSE IF col = self.dead /\ n = 3 THEN <<x, y, self.live>>
       ELSE << >>

\* get_changes on a universe that takes each change as soon as the scan finds it
RECURSIVE scan_in_place(_, _)
scan_in_place(self, i) ==
    IF i > self.width * self.height THEN << >>
    ELSE LET c == cell_change(self, (i - 1) % self.width, (i - 1) \div self.width)
         IN IF c = << >> THEN scan_in_place(self, i + 1)
            ELSE <<c>> \o scan_in_place([self EXCEPT !.universe[c[2]][c[1]] = c[3]], i + 1)

get_changes_in_place(self) == scan_in_place(self, 1)

get_changes(self) ==
    LET scan == [i \in 1..(self.width * self.height) |->
                    cell_change(self, (i - 1) % self.width, (i - 1) \div self.width)]
    IN SelectSeq(scan, LAMBDA c : Len(c) > 0)

RECURSIVE apply_changes(_, _)
apply_changes(universe, chs) ==
    IF chs = << >> THEN universe
    ELSE LET c == Head(chs)
         IN apply_changes([universe EXCEPT ![c[2]][c[1]] = c[3]], Tail(chs))

\* deque.append on a deque one entry shorter
deque_append_short(d, e) ==
    IF Len(d) >= 7 THEN Append(Tail(d), e) ELSE Append(d, e)

\* deque.append on a deque created without maxlen
deque_append_unbounded(d, e) == Append(d, e)

\* deque.append on a deque created with maxlen
deque_append(d, e) ==
    IF Len(d) >= HistoryMaxLen THEN Append(Tail(d), e) ELSE Append(d, e)

\* a test against the newest entry of History only
in_history_newest(chs, history) ==
    Len(history) > 0 /\ history[Len(history)] = chs

in_history(chs, history) ==
    \E i \in 1..Len(history) : history[i] = chs

\* advance with the halt test made after the push
advance_push_first(self, eternal) ==
    LET gen == self.generations + 1
        chs == get_changes(self)
        uni == apply_changes(self.universe, chs)
        pushed == [self EXCEPT !.generations = gen, !.universe = uni,
                               !.history = deque_append(self.history, chs)]
        halted == ~eternal /\ (Len(chs) = 0 \/ in_history(chs, pushed.history))
    IN [self |-> pushed,
        exc |-> IF halted THEN [type |-> "HaltedException", payload |-> gen] ELSE NoExc,
        changes |-> chs]

\* advance with the push made whether or not the call raises
advance_push_always(self, eternal) ==
    LET gen == self.generations + 1
        chs == get_changes(self)
        uni == apply_changes(self.universe, chs)
        halted == ~eternal /\ (Len(chs) = 0 \/ in_history(chs, self.history))
    IN [self |-> [self EXCEPT !.generations = gen, !.universe = uni,
                              !.history = deque_append(self.history, chs)],
        exc |-> IF halted THEN [type |-> "HaltedException", payload |-> gen] ELSE NoExc,
        changes |-> chs]

\* advance that makes the halt test whatever eternal is
advance_eternal_ignored(self, eternal) ==
    LET gen == self.generations + 1
        chs == get_changes(self)
        uni == apply_changes(self.universe, chs)
        halted == Len(chs) = 0 \/ in_history(chs, self.history)
    IN IF halted
       THEN [self |-> [self EXCEPT !.generations = gen, !.universe = uni],
             exc |-> [type |-> "HaltedException", payload |-> gen],
             changes |-> chs]
       ELSE [self |-> [self EXCEPT !.generations = gen, !.universe = uni,
                                   !.history = deque_append(self.history, chs)],
             exc |-> NoExc,
             changes |-> chs]

\* advance that counts the generation after the halt test, next to the push
advance_count_last(self, eternal) ==
    LET gen == self.generations + 1
        chs == get_changes(self)
        uni == apply_changes(self.universe, chs)
        halted == ~eternal /\ (Len(chs) = 0 \/ in_history(chs, self.history))
    IN IF halted
       THEN [self |-> [self EXCEPT !.universe = uni],
             exc |-> [type |-> "HaltedException", payload |-> self.generations],
             changes |-> chs]
       ELSE [self |-> [self EXCEPT !.generations = gen, !.universe = uni,
                                   !.history = deque_append(self.history, chs)],
             exc |-> NoExc,
             changes |-> chs]

\* advance that halts on an empty transition set only
advance_halt_on_empty(self, eternal) ==
    LET gen == self.generations + 1
        chs == get_changes(self)
        uni == apply_changes(self.universe, chs)
        halted == ~eternal /\ Len(chs) = 0
    IN IF halted
       THEN [self |-> [self EXCEPT !.generations = gen, !.universe = uni],
             exc |-> [type |-> "HaltedException", payload |-> gen],
             changes |-> chs]
       ELSE [self |-> [self EXCEPT !.generations = gen, !.universe = uni,
                                   !.history = deque_append(self.history, chs)],
             exc |-> NoExc,
             changes |-> chs]

\* advance returns the object after the call, the exception raised and its local changes
advance(self, eternal) ==
    LET gen == self.generations + 1
        chs == get_changes(self)
        uni == apply_changes(self.universe, chs)
        halted == ~eternal /\ (Len(chs) = 0 \/ in_history(chs, self.history))
    IN IF halted
       THEN [self |-> [self EXCEPT !.generations = gen, !.universe = uni],
             exc |-> [type |-> "HaltedException", payload |-> gen],
             changes |-> chs]
       ELSE [self |-> [self EXCEPT !.generations = gen, !.universe = uni,
                                   !.history = deque_append(self.history, chs)],
             exc |-> NoExc,
             changes |-> chs]

(***************************************************************************)
(* Seeding                                                                 *)
(***************************************************************************)
\* the k-element subsets of 1..n
RECURSIVE Combinations(_, _)
Combinations(n, k) ==
    IF k = 0 THEN {{}}
    ELSE IF n < k THEN {}
    ELSE Combinations(n - 1, k) \cup {S \cup {n} : S \in Combinations(n - 1, k - 1)}

CountOf(list, glyph) == Cardinality({i \in 1..Len(list) : list[i] = glyph})

\* random.shuffle: every rearrangement of the list; the lists a universe is flattened
\* to hold the live glyph and, elsewhere, the dead glyph
Shuffles(list, live, dead) ==
    {[i \in 1..Len(list) |-> IF i \in S THEN live ELSE dead] :
        S \in Combinations(Len(list), CountOf(list, live))}

\* [col for row in self.universe for col in row]
flatten(self) ==
    [i \in 1..(self.width * self.height) |->
        self.universe[(i - 1) \div self.width][(i - 1) % self.width]]

\* the number of live cells fill_random places, after the default for n < 0
fill_count(self, n) ==
    IF n < 0 THEN (self.width * self.height) \div 2 ELSE n

\* the loop run once more than n times
marked_one_more(self, n) ==
    [i \in 1..(self.width * self.height) |->
        IF i <= n + 1 THEN self.live ELSE flatten(self)[i]]

\* full_universe after the loop that marks its first n entries live
marked(self, n) ==
    [i \in 1..(self.width * self.height) |->
        IF i <= n THEN self.live ELSE flatten(self)[i]]

\* [full_universe[i:i + self.width] for i in range(0, len(full_universe), self.width)]
reshape(full, width) ==
    [y \in 0..(((Len(full) + width - 1) \div width) - 1) |->
        [x \in 0..(IF (y + 1) * width <= Len(full)
                   THEN width - 1 ELSE Len(full) - y * width - 1) |->
            full[y * width + x + 1]]]

\* fill_random that rejects a count only when it is above the number of cells
fill_random_lenient(self, n) ==
    LET m == fill_count(self, n)
    IN IF m > self.width * self.height
       THEN {[self |-> self,
              exc |-> [type |-> "OverpopulationException",
                       payload |-> self.width * self.height]]}
       ELSE {[self |-> [self EXCEPT !.universe = reshape(shuffled, self.width)],
              exc |-> NoExc] :
                shuffled \in Shuffles(marked(self, m), self.live, self.dead)}

\* the results fill_random(n) can have, one for each outcome of the shuffle
fill_random(self, n) ==
    LET m == fill_count(self, n)
    IN IF m >= self.width * self.height
       THEN {[self |-> self,
              exc |-> [type |-> "OverpopulationException",
                       payload |-> self.width * self.height]]}
       ELSE {[self |-> [self EXCEPT !.universe = reshape(shuffled, self.width)],
              exc |-> NoExc] :
                shuffled \in Shuffles(marked(self, m), self.live, self.dead)}

\* f.readlines(): the lines of the file, each with its line end
readlines(infile) ==
    [i \in 1..Len(infile) |-> Append(infile[i], Newline)]

\* the (x, y) of one line that fill_from_file assigns, in the order of the inner loop;
\* none when row.count(self.live) is 0
row_cells(self, row, y) ==
    IF CountOf(row, self.live) > 0
    THEN SelectSeq([j \in 1..Len(row) |-> <<j - 1, y, row[j]>>],
                   LAMBDA c : c[3] = self.live)
    ELSE << >>

RECURSIVE file_cells(_, _, _)
file_cells(self, lines, y) ==
    IF y >= Len(lines) THEN << >>
    ELSE row_cells(self, lines[y + 1], y) \o file_cells(self, lines, y + 1)

\* the assignments self.universe[y][x] = col in order, up to the first index that
\* is out of range, where the list raises IndexError
RECURSIVE assign_cells(_, _)
assign_cells(self, cells) ==
    IF cells = << >> THEN [self |-> self, exc |-> NoExc]
    ELSE LET c == Head(cells)
         IN IF c[2] \in DOMAIN self.universe /\ c[1] \in DOMAIN self.universe[c[2]]
            THEN assign_cells([self EXCEPT !.universe[c[2]][c[1]] = c[3]], Tail(cells))
            ELSE [self |-> self, exc |-> [type |-> "IndexError", payload |-> 0]]

fill_from_file(self, infile) ==
    assign_cells(self, file_cells(self, readlines(infile), 0))

(***************************************************************************)
(* Command lines                                                           *)
(***************************************************************************)
Namespace(width, height, cells, in_file, eternal, repeat, quiet) ==
    [width |-> width, height |-> height, cells |-> cells, in_file |-> in_file,
     live |-> LiveGlyph, dead |-> DeadGlyph, fill |-> DeadGlyph,
     eternal |-> eternal, repeat |-> repeat, quiet |-> quiet]

\* universes of at most area cells, with every --cells from the default -1 up to
\* one more than the universe holds
RandomConfigs(area) ==
    {Namespace(w, h, c, None, e, FALSE, FALSE) :
        w \in 1..area, h \in 1..area, c \in (-1)..(area + 1), e \in BOOLEAN}

RandomArgs(area) ==
    {a \in RandomConfigs(area) :
        a.width * a.height <= area /\ a.cells <= a.width * a.height + 1}

\* the text of a pattern: rows lines of cols characters, live at the given cells
PatternFile(cells, rows, cols) ==
    [i \in 1..rows |-> [j \in 1..cols |->
        IF <<j - 1, i - 1>> \in cells THEN LiveGlyph ELSE DeadGlyph]]

Block == {<<1, 1>>, <<1, 2>>, <<2, 1>>, <<2, 2>>}
BlinkerAcross == {<<1, 2>>, <<2, 2>>, <<3, 2>>}
BlinkerDown == {<<2, 1>>, <<2, 2>>, <<2, 3>>}
\* Tangle  .#.#    Crown  .##.
\*         #.##           #..#
\*         .#..           ####
\*         ##..           ....
Tangle == {<<1, 0>>, <<3, 0>>, <<0, 1>>, <<2, 1>>, <<3, 1>>, <<1, 2>>, <<0, 3>>, <<1, 3>>}
Crown == {<<1, 0>>, <<2, 0>>, <<0, 1>>, <<3, 1>>, <<0, 2>>, <<1, 2>>, <<2, 2>>, <<3, 2>>}
\* Weave  #.##
\*        ###.
\*        .###
\*        ##.#
Weave ==
    {<<0, 0>>, <<2, 0>>, <<3, 0>>, <<0, 1>>, <<1, 1>>, <<2, 1>>,
     <<1, 2>>, <<2, 2>>, <<3, 2>>, <<0, 3>>, <<1, 3>>, <<3, 3>>}

\* the figure eight, a period 8 oscillator, two cells away from the edges
FigureEight ==
    {<<x, y>> : x \in 2..4, y \in 2..4} \cup {<<x, y>> : x \in 5..7, y \in 5..7}

OscillatorArgs ==
    {Namespace(w, h, -1, SeedPath, e, FALSE, FALSE) :
        w \in 10..MaxOscillatorSide, h \in 10..MaxOscillatorSide, e \in BOOLEAN}

PatternFiles ==
    {PatternFile({}, 4, 4), PatternFile(Block, 4, 4), PatternFile(Tangle, 4, 4),
     PatternFile(Crown, 4, 4), PatternFile(Weave, 4, 4),
     PatternFile(BlinkerAcross, 5, 5),
     PatternFile(BlinkerDown, 5, 5)}

PatternArgs ==
    {Namespace(w, h, -1, SeedPath, e, FALSE, FALSE) :
        w \in 4..MaxPatternSide, h \in 4..MaxPatternSide, e \in BOOLEAN}

\* the strings of at most n characters
RECURSIVE Strings(_)
Strings(n) ==
    IF n = 0 THEN {<< >>}
    ELSE Strings(n - 1) \cup
         {Append(t, g) : t \in {u \in Strings(n - 1) : Len(u) = n - 1},
                         g \in {LiveGlyph, DeadGlyph}}

\* the text files of at most n lines
RECURSIVE TextFiles(_)
TextFiles(n) ==
    IF n = 0 THEN {<< >>}
    ELSE TextFiles(n - 1) \cup
         {Append(f, l) : f \in {u \in TextFiles(n - 1) : Len(u) = n - 1},
                         l \in Strings(MaxCols)}

FileArgs ==
    {Namespace(w, h, -1, SeedPath, FALSE, FALSE, FALSE) :
        w \in 1..MaxFileSide, h \in 1..MaxFileSide}

(***************************************************************************)
(* The Life object under the calls the driver makes on it: created, seeded *)
(* once from the file or at random, then advanced with the eternal flag of *)
(* the command line.                                                       *)
(***************************************************************************)
Created(a, text) ==
    /\ args = a
    /\ disk = text
    /\ ca = Life(a.width, a.height, a.live, a.dead)
    /\ pc = "seed"
    /\ exc = NoExc
    /\ changes = << >>
    /\ past = << >>
    /\ screen = Blank
    /\ twin = NoTwin

Init ==
    \/ \E a \in RandomArgs(MaxArea) : Created(a, << >>)
    \/ \E a \in PatternArgs, f \in PatternFiles : Created(a, f)
    \/ \E a \in OscillatorArgs : Created(a, PatternFile(FigureEight, 10, 10))

SeedRandom(seeded) ==
    /\ pc = "seed"
    /\ args.in_file = None
    /\ \E r \in fill_random(ca, args.cells) :
          /\ ca' = r.self
          /\ exc' = r.exc
          /\ pc' = IF r.exc = NoExc THEN seeded ELSE "crashed"
    /\ UNCHANGED <<args, disk, changes, past, screen, twin>>

SeedFromFile(seeded) ==
    /\ pc = "seed"
    /\ args.in_file # None
    /\ \E r \in {fill_from_file(ca, disk)} :
          /\ ca' = r.self
          /\ exc' = r.exc
          /\ pc' = IF r.exc = NoExc THEN seeded ELSE "crashed"
    /\ UNCHANGED <<args, disk, changes, past, screen, twin>>

FillRandom == SeedRandom("run")

FillFromFile == SeedFromFile("run")

Advance ==
    /\ pc = "run"
    /\ ca.generations < MaxGen
    /\ \E r \in {advance(ca, args.eternal)} :
          /\ ca' = r.self
          /\ exc' = r.exc
          /\ changes' = r.changes
          /\ past' = Append(past, [universe |-> ca.universe, raised |-> r.exc # NoExc])
    /\ UNCHANGED <<args, disk, pc, screen, twin>>

Next == FillRandom \/ FillFromFile \/ Advance

Spec == Init /\ [][Next]_vars

(***************************************************************************)
(* fill_from_file on a fresh universe, for every small text file.          *)
(***************************************************************************)
FileInit == \E a \in FileArgs, f \in TextFiles(MaxLines) : Created(a, f)

FileNext == FillFromFile

FileSpec == FileInit /\ [][FileNext]_vars

(***************************************************************************)
(* One tick taken apart: get_changes on the seeded universe, then the      *)
(* assignments of apply_changes one at a time, here in any order.          *)
(***************************************************************************)
OrderArgs == {a \in RandomArgs(MaxOrderArea) : ~a.eternal}

OrderInit == \E a \in OrderArgs : Created(a, << >>)

\* self.generations += 1; changes = self.get_changes()
OrderScan ==
    /\ pc = "run"
    /\ ca' = [ca EXCEPT !.generations = ca.generations + 1]
    /\ changes' = get_changes(ca)
    /\ past' = Append(past, [universe |-> ca.universe, raised |-> FALSE])
    /\ pc' = "apply"
    /\ UNCHANGED <<args, disk, exc, screen, twin>>

\* self.universe[y][x] = new_state for one of the changes not applied yet
OrderApply ==
    /\ pc = "apply"
    /\ \E i \in 1..Len(changes) :
          /\ ca' = [ca EXCEPT !.universe[changes[i][2]][changes[i][1]] = changes[i][3]]
          /\ changes' = SubSeq(changes, 1, i - 1) \o SubSeq(changes, i + 1, Len(changes))
    /\ UNCHANGED <<args, disk, pc, exc, past, screen, twin>>

\* the loop of apply_changes has no change left
OrderDone ==
    /\ pc = "apply"
    /\ changes = << >>
    /\ pc' = "applied"
    /\ UNCHANGED <<args, disk, ca, exc, changes, past, screen, twin>>

OrderNext == FillRandom \/ OrderScan \/ OrderApply \/ OrderDone

OrderSpec == OrderInit /\ [][OrderNext]_vars

(***************************************************************************)
(* draw: the driver.  pc is the statement it is about to execute.          *)
(***************************************************************************)
DrawArgs ==
    {[a EXCEPT !.repeat = r, !.quiet = q, !.in_file = i] :
        a \in RandomArgs(MaxDrawArea), r \in BOOLEAN, q \in BOOLEAN,
        i \in {None, SeedPath}}

\* args.fill.join(row)
join(fill, row) ==
    [k \in 1..(IF Len(row) = 0 THEN 0 ELSE 2 * Len(row) - 1) |->
        IF k % 2 = 1 THEN row[(k + 1) \div 2] ELSE fill]

\* a row of the universe as the list it is
as_list(row) == [k \in 1..Cardinality(DOMAIN row) |-> row[k - 1]]

DrawInit ==
    /\ args \in {a \in DrawArgs : a.in_file = None \/ a.cells = -1}
    /\ disk \in (IF args.in_file = None THEN {<< >>} ELSE TextFiles(1))
    /\ ca = Life(1, 1, args.live, args.dead)
    /\ pc = "new"
    /\ exc = NoExc
    /\ changes = << >>
    /\ past = << >>
    /\ screen = Blank
    /\ twin = NoTwin

\* the Life object created once, before the outer loop
DrawNew_hoisted ==
    /\ pc = "new"
    /\ ca' = IF screen = Blank THEN Life(args.width, args.height, args.live, args.dead)
             ELSE ca
    /\ pc' = "seed"
    /\ past' = << >>
    /\ changes' = << >>
    /\ UNCHANGED <<args, disk, exc, screen, twin>>

\* ca = Life(width=width, height=height, live=args.live, dead=args.dead)
DrawNew ==
    /\ pc = "new"
    /\ ca' = Life(args.width, args.height, args.live, args.dead)
    /\ pc' = "seed"
    /\ past' = << >>
    /\ changes' = << >>
    /\ UNCHANGED <<args, disk, exc, screen, twin>>

DrawFillRandom == SeedRandom("render")

DrawFillFromFile == SeedFromFile("render")

\* stdscr.clear(), one addstr for each row, stdscr.refresh()
DrawRender ==
    /\ pc = "render"
    /\ screen' = [rows |-> [y \in DOMAIN ca.universe |->
                               join(args.fill, as_list(ca.universe[y]))],
                  status |-> NoStatus]
    /\ pc' = "advance"
    /\ UNCHANGED <<args, disk, ca, exc, changes, past, twin>>

\* ca.advance(eternal=args.eternal) inside the try
DrawAdvance ==
    /\ pc = "advance"
    /\ ca.generations < MaxGen
    /\ \E r \in {advance(ca, args.eternal)} :
          /\ ca' = r.self
          /\ exc' = r.exc
          /\ changes' = r.changes
          /\ past' = Append(past, [universe |-> ca.universe, raised |-> r.exc # NoExc])
          /\ pc' = IF r.exc.type = "HaltedException" THEN "except" ELSE "sleep"
    /\ UNCHANGED <<args, disk, screen, twin>>

\* the sleep followed by the advance: the rendering left out of the inner loop
DrawSleep_to_advance ==
    /\ pc = "sleep"
    /\ pc' = "advance"
    /\ UNCHANGED <<args, disk, ca, exc, changes, past, screen, twin>>

\* time.sleep(1 / args.rate)
DrawSleep ==
    /\ pc = "sleep"
    /\ pc' = "render"
    /\ UNCHANGED <<args, disk, ca, exc, changes, past, screen, twin>>

\* the except branch with the sleep and the getch inside "if not args.quiet"
DrawExcept_quiet_skips ==
    /\ pc = "except"
    /\ pc' = IF args.eternal THEN "render"
             ELSE IF args.repeat THEN (IF args.quiet THEN "new" ELSE "delay")
             ELSE (IF args.quiet THEN "returned" ELSE "getch")
    /\ screen' = IF args.eternal \/ args.quiet THEN screen
                 ELSE [screen EXCEPT !.status =
                          [shown |-> TRUE, generations |-> exc.payload,
                           prompt |-> ~args.repeat]]
    /\ exc' = NoExc
    /\ UNCHANGED <<args, disk, ca, changes, past, twin>>

\* except HaltedException as he: up to the sleep or the getch of its branch
DrawExcept ==
    /\ pc = "except"
    /\ pc' = IF args.eternal THEN "render"
             ELSE IF args.repeat THEN "delay" ELSE "getch"
    /\ screen' = IF args.eternal \/ args.quiet THEN screen
                 ELSE [screen EXCEPT !.status =
                          [shown |-> TRUE, generations |-> exc.payload,
                           prompt |-> ~args.repeat]]
    /\ exc' = NoExc
    /\ UNCHANGED <<args, disk, ca, changes, past, twin>>

\* time.sleep(args.delay); break
DrawDelay ==
    /\ pc = "delay"
    /\ pc' = "new"
    /\ UNCHANGED <<args, disk, ca, exc, changes, past, screen, twin>>

\* the branch without its return: the loop goes on after the key
DrawGetch_resume ==
    /\ pc = "getch"
    /\ pc' = "render"
    /\ UNCHANGED <<args, disk, ca, exc, changes, past, screen, twin>>

\* stdscr.getch(); return
DrawGetch ==
    /\ pc = "getch"
    /\ pc' = "returned"
    /\ UNCHANGED <<args, disk, ca, exc, changes, past, screen, twin>>

DrawNext ==
    \/ DrawNew \/ DrawFillRandom \/ DrawFillFromFile \/ DrawRender \/ DrawAdvance
    \/ DrawSleep \/ DrawExcept \/ DrawDelay \/ DrawGetch

DrawSpec == DrawInit /\ [][DrawNext]_vars

\* the statements of draw that do not wait for the terminal
DrawRuns ==
    \/ DrawNew \/ DrawFillRandom \/ DrawFillFromFile \/ DrawRender \/ DrawAdvance
    \/ DrawSleep \/ DrawExcept \/ DrawDelay

HaltArgs == {a \in DrawArgs : a.width * a.height <= MaxHaltArea}

HaltInit == DrawInit /\ args \in HaltArgs

\* draw is one thread that executes its next statement as long as it has one; only
\* stdscr.getch() waits, for a key that may never come
DrawFairSpec == HaltInit /\ [][DrawNext]_vars /\ WF_vars(DrawRuns)

(***************************************************************************)
(* Two runs of draw side by side, on the same command line but for --quiet *)
(* (the first without it, the second with it) and with the same seeds.     *)
(* The runs step in turn: the first makes a step, then the second makes a  *)
(* step.  The run whose turn it is lives in the variables of the driver,   *)
(* the other one is kept in twin.                                          *)
(***************************************************************************)
TwinArgs ==
    {a \in DrawArgs :
        /\ a.width * a.height <= MaxTwinArea
        /\ ~a.quiet
        /\ (a.in_file = None \/ a.cells = -1)}

\* the run in the variables of the driver
Run ==
    [args |-> args, disk |-> disk, ca |-> ca, pc |-> pc, exc |-> exc,
     changes |-> changes, past |-> past, screen |-> screen]

TwinInit ==
    /\ args \in TwinArgs
    /\ disk \in (IF args.in_file = None THEN {<< >>} ELSE TextFiles(1))
    /\ ca = Life(1, 1, args.live, args.dead)
    /\ pc = "new"
    /\ exc = NoExc
    /\ changes = << >>
    /\ past = << >>
    /\ screen = Blank
    /\ twin = [turn |-> 1, other |-> [Run EXCEPT !.args.quiet = TRUE]]

\* a run without its quiet flag and without the status message on its screen
Observed(r) == [r EXCEPT !.args.quiet = FALSE, !.screen.status = NoStatus]

\* both runs have made the same number of steps
InStep == twin.turn = 1 /\ Observed(Run) = Observed(twin.other)

\* the second run is one step behind the first
Behind == twin.turn = 2 /\ Observed(Run) # Observed(twin.other)

\* a step of draw by the run whose turn it is; the second run draws the seed the
\* first one drew
TwinStep ==
    /\ InStep \/ Behind
    /\ DrawNext
    /\ (twin.turn = 2 /\ pc = "seed") => ca' = twin.other.ca

\* the turn passes to the other run
TwinSwap ==
    /\ ~(InStep \/ Behind)
    /\ args' = twin.other.args
    /\ disk' = twin.other.disk
    /\ ca' = twin.other.ca
    /\ pc' = twin.other.pc
    /\ exc' = twin.other.exc
    /\ changes' = twin.other.changes
    /\ past' = twin.other.past
    /\ screen' = twin.other.screen
    /\ twin' = [turn |-> 3 - twin.turn, other |-> Run]

TwinNext == TwinStep \/ TwinSwap

TwinSpec == TwinInit /\ [][TwinNext]_vars

(***************************************************************************)
(* Notions the properties are stated with                                  *)
(***************************************************************************)
\* the universe after generation i of ca, for i in 0..ca.generations
Grid(i) == IF i = Len(past) THEN ca.universe ELSE past[i + 1].universe

Cells(u) == UNION {{<<x, y>> : x \in DOMAIN u[y]} : y \in DOMAIN u}

LiveCells(u) == {c \in Cells(u) : u[c[2]][c[1]] = LiveGlyph}

\* the step is an advance() call on ca
IsAdvance == ca'.generations = ca.generations + 1

\* History after one more push of e
Pushed(h, e) == IF Len(h) = 8 THEN Tail(h) \o <<e>> ELSE h \o <<e>>

\* some call among the first n advance() calls on ca raised
RaisedBy(n) == \E i \in 1..n : past[i].raised

\* the live cells among the eight cells around c that lie in the universe
Around(u, c) ==
    {d \in LiveCells(u) :
        /\ d # c
        /\ d[1] - c[1] \in {-1, 0, 1}
        /\ d[2] - c[2] \in {-1, 0, 1}}

\* the state the rule gives cell c of u in the next generation
RuleOf(u, c) ==
    LET n == Cardinality(Around(u, c))
    IN IF u[c[2]][c[1]] = LiveGlyph
       THEN (IF n \in {2, 3} THEN LiveGlyph ELSE DeadGlyph)
       ELSE (IF n = 3 THEN LiveGlyph ELSE DeadGlyph)

(***************************************************************************)
(* Properties                                                              *)
(***************************************************************************)
\* C1: one advance() sets every cell from the universe before the tick: a dead cell
\* with 3 live in-bounds Moore neighbours becomes live, a live cell with 2 or 3 stays
\* live, every other cell is dead afterwards; cells outside the universe count as 0.
C1_RuleFromPreTick ==
    (pc = "run" /\ Len(past) > 0) =>
        \A c \in Cells(ca.universe) :
            ca.universe[c[2]][c[1]] = RuleOf(Grid(Len(past) - 1), c)

\* a tick in which a cell on the border was born, a cell died with more than 3
\* neighbours and a cell died with fewer than 2
C1_Witness ==
    /\ pc = "run" /\ Len(past) > 0
    /\ LET u == Grid(Len(past) - 1)
       IN /\ \E c \in Cells(u) :
                /\ c[1] = 0
                /\ u[c[2]][c[1]] = DeadGlyph /\ ca.universe[c[2]][c[1]] = LiveGlyph
          /\ \E c \in Cells(u) :
                /\ u[c[2]][c[1]] = LiveGlyph /\ ca.universe[c[2]][c[1]] = DeadGlyph
                /\ Cardinality(Around(u, c)) > 3
          /\ \E c \in Cells(u) :
                /\ u[c[2]][c[1]] = LiveGlyph /\ ca.universe[c[2]][c[1]] = DeadGlyph
                /\ Cardinality(Around(u, c)) < 2

\* C2: advance(eternal) raises HaltedException exactly when eternal is false and the
\* transition set of the tick is empty or equal to a set stored in History before the
\* call; the payload is the generation count after the increment; with eternal true
\* it never raises.
C2_HaltIff ==
    [][IsAdvance =>
        /\ (exc'.type = "HaltedException") <=>
              (~args.eternal /\ (changes' = << >> \/
                                 \E i \in 1..Len(ca.history) : ca.history[i] = changes'))
        /\ exc'.type = "HaltedException" => exc'.payload = ca.generations + 1
        /\ exc'.type \in {"HaltedException", "none"}
        /\ args.eternal => exc' = NoExc]_vars

\* an advance raised on a transition set that is not empty but is stored in History
C2_Witness ==
    /\ exc.type = "HaltedException"
    /\ changes # << >>
    /\ \E i \in 1..Len(ca.history) : ca.history[i] = changes
    /\ exc.payload = ca.generations

\* C3 as stated: after an advance that raised, the newest History entry is the
\* transition set of that tick.
C3_PushedOnHalt ==
    exc.type = "HaltedException" =>
        (Len(ca.history) > 0 /\ ca.history[Len(ca.history)] = changes)

\* C3 as amended: an advance that does not raise pushes the tick's transition set into
\* History, evicting the oldest entry when History holds 8; an advance that raises
\* leaves History as it was.
C3_PushedUnlessHalt ==
    [][IsAdvance =>
        ca'.history = IF exc'.type = "HaltedException" THEN ca.history
                      ELSE Pushed(ca.history, changes')]_vars

\* the ninth advance did not raise and pushed a transition set that is not empty
\* onto a full History
C3_Witness ==
    /\ Len(past) = 9
    /\ \A i \in 1..9 : ~past[i].raised
    /\ Len(ca.history) = 8
    /\ changes # << >> /\ ca.history[8] = changes

\* C4: when the universe after generation s + p equals the one after generation s,
\* for a period p of 1 to 8, one of the first s + p + 1 advance(eternal=False) calls
\* raises HaltedException.
C4_ShortCycleHalts ==
    ~args.eternal =>
        \A s \in 0..Len(past), p \in 1..8 :
            (s + p + 1 <= Len(past) /\ Grid(s) = Grid(s + p)) => RaisedBy(s + p + 1)

\* the seed came back after 8 generations, not earlier, and the ninth call was the
\* first to raise
C4_Witness ==
    /\ ~args.eternal
    /\ Len(past) = 9
    /\ Grid(0) = Grid(8) /\ \A i \in 1..7 : Grid(0) # Grid(i)
    /\ ~RaisedBy(8) /\ past[9].raised

\* no cell of u changes under the rule
Still(u) == \A c \in Cells(u) : RuleOf(u, c) = u[c[2]][c[1]]

\* C5: when advance(eternal=False) raises, the tick changed no cell or the universe
\* after the call equals the universe after one of the 8 calls before it.
C5_HaltOnlyWhenCyclic ==
    (~args.eternal /\ Len(past) > 0 /\ past[Len(past)].raised) =>
        \/ Grid(Len(past)) = Grid(Len(past) - 1)
        \/ \E i \in 1..(Len(past) - 1) : Len(past) - i <= 8 /\ Grid(i) = Grid(Len(past))

\* C6: on a universe no cell of which changes under the rule, the fully dead one and
\* the 4 by 4 one holding the block among them, the first advance(eternal=False)
\* computes no transition, leaves the universe as it was and raises HaltedException(1).
C6_StillHaltsAtOnce ==
    (~args.eternal /\ Len(past) = 1 /\
        (Still(Grid(0)) \/ LiveCells(Grid(0)) = {} \/
         (args.width = 4 /\ args.height = 4 /\ LiveCells(Grid(0)) = Block))) =>
        /\ changes = << >>
        /\ ca.universe = Grid(0)
        /\ exc = [type |-> "HaltedException", payload |-> 1]
        /\ ca.generations = 1

\* the first advance was made on the 4 by 4 universe that holds the block
C6_Witness ==
    /\ ~args.eternal /\ Len(past) = 1
    /\ args.width = 4 /\ args.height = 4
    /\ LiveCells(Grid(0)) = {<<1, 1>>, <<1, 2>>, <<2, 1>>, <<2, 2>>}
    /\ exc.type = "HaltedException"

\* three live cells in a row or in a column, none of them on the border, and no other
LoneBlinker(u) ==
    \E c \in Cells(u) :
        \/ /\ c[1] >= 2 /\ c[1] <= args.width - 3
           /\ c[2] >= 1 /\ c[2] <= args.height - 2
           /\ LiveCells(u) = {<<c[1] - 1, c[2]>>, c, <<c[1] + 1, c[2]>>}
        \/ /\ c[1] >= 1 /\ c[1] <= args.width - 2
           /\ c[2] >= 2 /\ c[2] <= args.height - 3
           /\ LiveCells(u) = {<<c[1], c[2] - 1>>, c, <<c[1], c[2] + 1>>}

\* C7: on a universe of at least 5 by 5 seeded with a lone blinker off the border, the
\* first two advance(eternal=False) calls do not raise and the third raises
\* HaltedException(3), on a transition set equal to the one the first call stored.
C7_BlinkerHaltsAtThree ==
    (~args.eternal /\ args.width >= 5 /\ args.height >= 5 /\ Len(past) \in 1..3
        /\ LoneBlinker(Grid(0))) =>
        /\ ~RaisedBy(IF Len(past) < 3 THEN Len(past) ELSE 2)
        /\ (Len(past) = 3) =>
              /\ exc = [type |-> "HaltedException", payload |-> 3]
              /\ changes = ca.history[1] /\ changes # ca.history[2]
              /\ Len(ca.history) = 2

\* the third advance was made on a universe seeded with a lone blinker
C7_Witness ==
    /\ ~args.eternal /\ args.width >= 5 /\ args.height >= 5
    /\ Len(past) = 3 /\ LoneBlinker(Grid(0))
    /\ exc.type = "HaltedException"

\* C8: fill_random(n) on a fresh universe, for 0 <= n < width * height, leaves height
\* rows of width cells of which exactly n are live and the others dead, whatever the
\* shuffle gives; for n < 0 the count is width * height divided by 2, rounded down.
C8_ExactCount ==
    (args.in_file = None /\ pc = "run" /\ Len(past) = 0) =>
        /\ DOMAIN ca.universe = 0..(args.height - 1)
        /\ \A y \in DOMAIN ca.universe : DOMAIN ca.universe[y] = 0..(args.width - 1)
        /\ Cardinality(LiveCells(ca.universe)) =
              IF args.cells < 0 THEN (args.width * args.height) \div 2 ELSE args.cells
        /\ \A c \in Cells(ca.universe) \ LiveCells(ca.universe) :
              ca.universe[c[2]][c[1]] = DeadGlyph

\* a 3 by 3 universe seeded with the default count, its last row not empty
C8_Witness ==
    /\ args.in_file = None /\ pc = "run" /\ Len(past) = 0
    /\ args.cells = -1 /\ args.width = 3 /\ args.height = 3
    /\ Cardinality(LiveCells(ca.universe)) = 4
    /\ ca.universe[2][2] = LiveGlyph

C10_FileSeeding ==
    pc # "seed" =>
        /\ exc = NoExc
        /\ LiveCells(ca.universe) =
              {c \in Cells(ca.universe) :
                  /\ c[2] < Len(disk)
                  /\ c[1] < Len(disk[c[2] + 1])
                  /\ disk[c[2] + 1][c[1] + 1] = LiveGlyph}

\* the driver was started with --repeat and without --eternal
Repeating == args.repeat /\ ~args.eternal

\* C11: with repeat set and eternal not set, a halt is followed by the delay and then
\* by a new universe: the driver creates a Life object with generation count 0, empty
\* History and no live cell, seeds it and goes back to rendering; nothing of the halted
\* universe carries over; the driver never waits for a key and never returns (it stops
\* only on an exception of the first seeding, before any frame is drawn).
C11_RepeatRestarts ==
    /\ [][(Repeating /\ pc = "except") => (pc' = "delay" /\ ca' = ca)]_vars
    /\ [][(Repeating /\ pc = "delay") => (pc' = "new" /\ ca' = ca)]_vars
    /\ [][(Repeating /\ pc = "new") =>
            /\ pc' = "seed"
            /\ ca'.generations = 0 /\ ca'.history = << >>
            /\ ca'.width = args.width /\ ca'.height = args.height
            /\ DOMAIN ca'.universe = 0..(args.height - 1)
            /\ \A y \in DOMAIN ca'.universe : DOMAIN ca'.universe[y] = 0..(args.width - 1)
            /\ LiveCells(ca'.universe) = {}]_vars
    /\ [][(Repeating /\ pc = "seed" /\ screen # Blank) =>
            /\ pc' = "render" /\ exc' = NoExc
            /\ ca'.generations = 0 /\ ca'.history = << >>]_vars
    /\ [](Repeating => pc \notin {"getch", "returned"})
    /\ [](Repeating /\ pc = "crashed" => screen = Blank)

\* a universe that halted after 3 generations or more has been replaced: the halt
\* message is still on the screen and the new universe is seeded, at generation 0
C11_Witness ==
    /\ Repeating /\ pc = "render"
    /\ screen.status.shown /\ screen.status.generations >= 3
    /\ ca.generations = 0 /\ ca.history = << >>
    /\ LiveCells(ca.universe) # {}

\* C12: with eternal set, whatever repeat and quiet are, the driver never handles a
\* halt: it is never in the except branch, in the delay before a restart, at the wait
\* for a key or returned, never shows a halt message, creates and seeds one universe
\* only, and goes from render to advance to sleep and back to render on every tick,
\* every advance without an exception, also once the universe has stopped changing.
C12_EternalNeverHalts ==
    /\ [](args.eternal =>
            /\ pc \in {"new", "seed", "render", "advance", "sleep", "crashed"}
            /\ ~screen.status.shown
            /\ exc.type # "HaltedException")
    /\ [][(args.eternal /\ pc = "render") => (pc' = "advance" /\ ca' = ca)]_vars
    /\ [][(args.eternal /\ pc = "advance") =>
            (pc' = "sleep" /\ IsAdvance /\ exc' = NoExc /\ screen' = screen)]_vars
    /\ [][(args.eternal /\ pc = "sleep") =>
            (pc' = "render" /\ ca' = ca /\ screen' = screen)]_vars
    /\ [][args.eternal => pc' # "new"]_vars
    /\ [][(args.eternal /\ pc = "seed") => (screen = Blank /\ past = << >>)]_vars

\* with eternal, repeat and no quiet, the driver sleeps after an advance that changed
\* no cell, as did the advance before it
C12_Witness ==
    /\ args.eternal /\ args.repeat /\ ~args.quiet
    /\ pc = "sleep"
    /\ ca.generations >= 3
    /\ changes = << >> /\ Grid(Len(past) - 2) = ca.universe
    /\ LiveCells(ca.universe) # {}

\* C13: two runs of the driver on the same command line but for quiet, drawing the
\* same seeds, stay equal step for step in everything but the status message: the
\* same grids, advance calls and exceptions, the same sleeps, delays before a restart,
\* restarts, waits for a key and returns (the position of the driver), the same rows
\* on the screen; the second run can make a step whenever the first one made one; the
\* quiet run never shows a status message, the other one shows it at every halt that
\* is handled without eternal.
C13_QuietOnlyHidesStatus ==
    /\ [][(twin.turn = 2 /\ twin' = twin) => Observed(Run)' = Observed(twin.other)]_vars
    /\ [][(twin' = twin /\ pc = "except" /\ ~args.eternal) =>
            (screen'.status.shown <=> ~args.quiet)]_vars
    /\ [](args.quiet => ~screen.status.shown)
    /\ [](Behind => pc \notin {"crashed", "returned"})

\* both runs are about to render the universe that replaced one halted after 2
\* generations or more; the halt message is on the screen of the first run only
C13_Witness ==
    /\ InStep /\ pc = "render"
    /\ args.repeat /\ ~args.eternal
    /\ ca.generations = 0 /\ LiveCells(ca.universe) # {}
    /\ screen.status.shown /\ screen.status.generations >= 2
    /\ ~twin.other.screen.status.shown

\* the driver was started without --repeat and without --eternal
Stopping == ~args.repeat /\ ~args.eternal

\* C14: with neither eternal nor repeat, the first HaltedException ends the run: the
\* driver catches it (it never stops the driver as an exception), makes no other
\* advance, render or seeding, goes to the wait for a key with the universe and the
\* rows on the screen as they were, returns on the key and does nothing after that;
\* once an advance has raised, the driver gets to the wait for the key.
C14_HaltEndsRun ==
    /\ [][(Stopping /\ pc = "advance" /\ exc'.type = "HaltedException") =>
            pc' = "except"]_vars
    /\ [][(Stopping /\ pc = "except") =>
            /\ pc' = "getch" /\ exc' = NoExc
            /\ ca' = ca /\ past' = past /\ screen'.rows = screen.rows]_vars
    /\ [][(Stopping /\ pc = "getch") =>
            (pc' = "returned" /\ ca' = ca /\ past' = past /\ screen' = screen)]_vars
    /\ [][Stopping => pc # "returned"]_vars
    /\ [](Stopping =>
            /\ Cardinality({i \in 1..Len(past) : past[i].raised}) <= 1
            /\ (pc = "crashed" => exc.type # "HaltedException")
            /\ (pc \in {"except", "getch", "returned"} <=>
                    (Len(past) > 0 /\ past[Len(past)].raised)))
    /\ ((Stopping /\ pc = "except") ~> (pc = "getch"))

\* the driver has returned after a halt at generation 2 or later, on a universe with
\* live cells, the message and the prompt on the screen
C14_Witness ==
    /\ Stopping /\ pc = "returned"
    /\ ca.generations >= 2 /\ LiveCells(ca.universe) # {}
    /\ screen.status = [shown |-> TRUE, generations |-> ca.generations, prompt |-> TRUE]

\* the screen shows universe u: one row for each row of u, the glyphs of its cells in
\* order with the fill character between them, and no status message
Shows(u) ==
    /\ DOMAIN screen.rows = DOMAIN u
    /\ \A y \in DOMAIN u :
          /\ Len(screen.rows[y]) = 2 * args.width - 1
          /\ \A x \in DOMAIN u[y] : screen.rows[y][2 * x + 1] = u[y][x]
          /\ \A x \in 1..(args.width - 1) : screen.rows[y][2 * x] = args.fill
    /\ screen.status = NoStatus

\* C15: in every tick the driver renders, then advances, then sleeps: each advance is
\* made right after a render, with the screen showing the universe exactly as the
\* advance reads it (the seeded universe before the first advance); the universe
\* changes only where it is created, seeded or advanced; rendering and sleeping leave
\* it alone; after an advance that did not raise comes the sleep, then the next render.
C15_RenderAdvanceSleep ==
    /\ [](pc = "advance" => Shows(ca.universe))
    /\ [][pc' = "advance" => pc = "render"]_vars
    /\ [][pc = "render" => (pc' = "advance" /\ ca' = ca)]_vars
    /\ [][IsAdvance => pc = "advance"]_vars
    /\ [][(pc = "advance" /\ exc' = NoExc) => pc' = "sleep"]_vars
    /\ [][pc = "sleep" => (pc' = "render" /\ ca' = ca /\ screen' = screen)]_vars
    /\ [][ca' # ca => pc \in {"new", "seed", "advance"}]_vars

\* the driver is about to make its third advance or a later one, on a universe with
\* live cells that the advance before it changed
C15_Witness ==
    /\ pc = "advance" /\ ca.generations >= 2
    /\ args.width >= 2 /\ args.height >= 2
    /\ LiveCells(ca.universe) # {} /\ changes # << >>
    /\ Shows(ca.universe)

\* C16: get_changes leaves the universe as it was; no two transitions of one set are
\* for the same cell; and the transitions of the set, applied one by one in any
\* order, give the universe that apply_changes gives in the order of the set, in
\* which every cell is what the rule makes of the universe before the tick.
C16_OrderIndependent ==
    /\ [][(pc = "run" /\ pc' = "apply") => ca'.universe = ca.universe]_vars
    /\ [](pc = "apply" =>
            \A i, j \in 1..Len(changes) :
                (changes[i][1] = changes[j][1] /\ changes[i][2] = changes[j][2]) => i = j)
    /\ [](pc = "applied" =>
            /\ ca.universe =
                  apply_changes(Grid(0), get_changes([ca EXCEPT !.universe = Grid(0)]))
            /\ \A c \in Cells(ca.universe) :
                  ca.universe[c[2]][c[1]] = RuleOf(Grid(0), c))

\* the last of 4 or more transitions, births and deaths among them, has been applied
C16_Witness ==
    /\ pc = "applied"
    /\ Cardinality({c \in Cells(ca.universe) : ca.universe[c[2]][c[1]] # Grid(0)[c[2]][c[1]]}) >= 4
    /\ LiveCells(ca.universe) \ LiveCells(Grid(0)) # {}
    /\ LiveCells(Grid(0)) \ LiveCells(ca.universe) # {}

\* the cells in which v differs from u, with their state in v, in row-major order
Diff(u, v) ==
    SelectSeq([i \in 1..(args.width * args.height) |->
                  <<(i - 1) % args.width, (i - 1) \div args.width,
                    v[(i - 1) \div args.width][(i - 1) % args.width]>>],
              LAMBDA t : u[t[2]][t[1]] # t[3])

\* the transition sets of the advance calls on ca that did not raise, oldest first
PushedSets ==
    LET calls == SelectSeq([i \in 1..Len(past) |-> i], LAMBDA i : ~past[i].raised)
    IN [k \in 1..Len(calls) |-> Diff(Grid(calls[k] - 1), Grid(calls[k]))]

\* the last n entries of seq
LastOf(seq, n) == SubSeq(seq, Len(seq) - n + 1, Len(seq))

\* C17: after any advance calls, eternal or not, History holds at most 8 transition
\* sets and is the sequence of the last min(8, m) sets pushed, oldest first, where m
\* is the number of pushes (the calls that did not raise): a push onto 8 entries
\* drops the oldest one.
C17_BoundedFifo ==
    pc = "run" =>
        /\ Len(ca.history) <= 8
        /\ ca.history =
              LastOf(PushedSets, IF Len(PushedSets) < 8 THEN Len(PushedSets) ELSE 8)

\* without eternal, 9 or more sets were pushed, so that the first one is gone
C17_Witness ==
    /\ pc = "run" /\ ~args.eternal
    /\ Len(PushedSets) >= 9
    /\ Len(ca.history) = 8
    /\ \A i \in 1..8 : ca.history[i] # PushedSets[1]

\* C18: the generation count is 0 on the new universe, is left alone by fill_random
\* and fill_from_file, never decreases, and is the number of advance calls made on the
\* universe so far, those that raised HaltedException included.
C18_GenerationCount ==
    /\ [](ca.generations = Len(past))
    /\ [](pc = "seed" => ca.generations = 0)
    /\ [][pc = "seed" => ca'.generations = ca.generations]_vars
    /\ [][ca'.generations >= ca.generations]_vars
    /\ [][pc = "run" => ca'.generations = ca.generations + 1]_vars

\* the last two of 4 or more advance calls raised, and both were counted
C18_Witness ==
    /\ Len(past) >= 4
    /\ past[Len(past)].raised /\ past[Len(past) - 1].raised
    /\ ~past[1].raised
    /\ ca.generations = Len(past)
    /\ exc = [type |-> "HaltedException", payload |-> Len(past)]

\* C19: once an advance(eternal=False) call on a universe has raised HaltedException,
\* every later advance(eternal=False) call on that universe raises it too.
C19_HaltIsTerminal ==
    ~args.eternal =>
        \A i, j \in 1..Len(past) : (i < j /\ past[i].raised) => past[j].raised

\* C20: on a universe stepped by advance(eternal=False) only, every transition set
\* in History has at least one transition and no two entries of History are equal.
C20_HistoryDistinct ==
    ~args.eternal =>
        \A i \in 1..Len(ca.history) :
            /\ Len(ca.history[i]) > 0
            /\ \A j \in 1..Len(ca.history) : ca.history[i] = ca.history[j] => i = j

\* History holds 8 sets and the last call raised on a set equal to the oldest of them
C20_Witness ==
    /\ ~args.eternal
    /\ Len(ca.history) = 8
    /\ exc.type = "HaltedException"
    /\ changes # << >> /\ changes = ca.history[1]

=============================================================================
